---------------------------- MODULE Spec2Model ----------------------------
(***************************************************************************)
(* Model of pdf_sanitizer.py: detection (contains_javascript) and removal  *)
(* (remove_javascript) of JavaScript actions in a PDF object graph.        *)
(*                                                                         *)
(* The object graph is a heap of containers (Dictionary / Array).  A value *)
(* is a Name, a reference to a container of the heap, or None.  pikepdf    *)
(* exposes `objgen` on every object: an indirect object has its own        *)
(* (number, generation) pair, a direct object has (0, 0).  A Dictionary's  *)
(* items() are produced from a copy of its entries, in the byte order of   *)
(* the keys.  `del d[k]` on an absent key raises KeyError.                 *)
(***************************************************************************)
EXTENDS Integers, Sequences, FiniteSets, TLC

\* ----------------------------------------------------------------- bounds
\* Depth at which a runaway recursion is cut off with RecursionError
\* (Python's recursion limit, scaled to the size of the modelled graphs).
RecursionLimit == 12

\* remove_javascript: max_passes = 10 (safety limit of the pass loop).
max_passes == 10

\* ------------------------------------------------------------- data model
Name(s) == [k |-> "name", n |-> s, h |-> 0]
Ref(i)  == [k |-> "ref",  n |-> "",  h |-> i]
None    == [k |-> "none", n |-> "",  h |-> 0]

JavaScript == Name("JavaScript")

\* Dictionary keys in the order items() yields them (byte order of the key).
KeyOrder ==
  << "/A", "/AA", "/Annots", "/Bl", "/C", "/D", "/Dests", "/E", "/Fo",
     "/JavaScript", "/K", "/Kids", "/Names", "/Next", "/O", "/OpenAction",
     "/PC", "/PI", "/PO", "/PV", "/Pages", "/S", "/U", "/X" >>

\* Constructors of heap nodes.
Dict(ind, d) == [kind |-> "dict",  ind |-> ind, d |-> d,    a |-> << >>]
Arr(ind, a)  == [kind |-> "array", ind |-> ind, d |-> << >>, a |-> a]

\* isinstance(obj, pikepdf.Dictionary) / isinstance(obj, pikepdf.Array)
IsDictionary(hp, v) == v.k = "ref" /\ hp[v.h].kind = "dict"
IsArray(hp, v)      == v.k = "ref" /\ hp[v.h].kind = "array"

\* obj.objgen: (0, 0) for every direct object.
objgen(hp, h) == IF hp[h].ind THEN << h, 0 >> ELSE << 0, 0 >>

\* d.get(key): the entry, or None when the key is absent.
DictGet(node, key) == IF key \in DOMAIN node.d THEN node.d[key] ELSE None

\* list(d.items()): the <<key, value>> pairs, in key order, as a snapshot.
Items(node) ==
  LET ks == SelectSeq(KeyOrder, LAMBDA key : key \in DOMAIN node.d)
  IN  [i \in 1..Len(ks) |-> << ks[i], node.d[ks[i]] >>]

\* del hp[h][key]
DelKey(hp, h, key) ==
  LET old == hp[h].d
  IN  [hp EXCEPT ![h].d = [x \in (DOMAIN old) \ {key} |-> old[x]]]

\* Truth value of an object: a container is true iff it is not empty.
Truthy(hp, v) ==
  IF IsDictionary(hp, v) THEN DOMAIN hp[v.h].d # {}
  ELSE IF IsArray(hp, v) THEN Len(hp[v.h].a) > 0
  ELSE v.k = "name"

\* --------------------------------------------------- _is_javascript_action
\* Result "T" / "F", or "E" when the recursion over nested arrays does not
\* end (RecursionError).
RECURSIVE is_javascript_action(_, _, _)
RECURSIVE any_is_javascript_action(_, _, _, _)
RECURSIVE any_next(_, _, _, _, _)

is_javascript_action(hp, action_obj, depth) ==
  IF depth > RecursionLimit THEN "E"
  ELSE IF IsDictionary(hp, action_obj)
    THEN IF DictGet(hp[action_obj.h], "/S") = JavaScript THEN "T" ELSE "F"
  ELSE IF IsArray(hp, action_obj)
    THEN any_is_javascript_action(hp, hp[action_obj.h].a, 1, depth + 1)
  ELSE "F"

\* any(_is_javascript_action(item) for item in action_obj)
any_is_javascript_action(hp, items, i, depth) ==
  IF i > Len(items) THEN "F"
  ELSE any_next(hp, items, i, depth, is_javascript_action(hp, items[i], depth))

\* any() stops at the first item that is an action (or raises).
any_next(hp, items, i, depth, r) ==
  IF r = "F" THEN any_is_javascript_action(hp, items, i + 1, depth) ELSE r

\* --------------------------------------------------- _check_for_js_recursive
\* Result: [r: "T"/"F"/"E", visited, log]; log lists the heap nodes the scan
\* descended into, in order.
RECURSIVE check_for_js_recursive(_, _, _, _, _)
RECURSIVE check_dict_items(_, _, _, _, _, _)
RECURSIVE check_dict_entry(_, _, _, _, _, _, _)
RECURSIVE check_dict_next(_, _, _, _, _)
RECURSIVE check_array_items(_, _, _, _, _, _)
RECURSIVE check_array_next(_, _, _, _, _)

CheckRes(r, visited, log) == [r |-> r, visited |-> visited, log |-> log]

\* The cycle guard: `if obj_id in visited: return False`.
CheckSkipVisited(obj_id, visited) == obj_id \in visited

check_for_js_recursive(hp, obj, visited, log, depth) ==
  IF ~(IsDictionary(hp, obj) \/ IsArray(hp, obj))
    THEN CheckRes("F", visited, log)
  ELSE IF depth > RecursionLimit
    THEN CheckRes("E", visited, log)
  ELSE IF CheckSkipVisited(objgen(hp, obj.h), visited)
    THEN CheckRes("F", visited, log)
  ELSE IF IsDictionary(hp, obj)
    THEN IF DictGet(hp[obj.h], "/S") = JavaScript
           THEN CheckRes("T", visited \cup {objgen(hp, obj.h)}, Append(log, obj.h))
           ELSE check_dict_items(hp, Items(hp[obj.h]), 1,
                                 visited \cup {objgen(hp, obj.h)},
                                 Append(log, obj.h), depth)
  ELSE check_array_items(hp, hp[obj.h].a, 1, visited \cup {objgen(hp, obj.h)},
                         Append(log, obj.h), depth)

\* for key, value in obj.items(): ...
check_dict_items(hp, items, i, visited, log, depth) ==
  IF i > Len(items) THEN CheckRes("F", visited, log)
  ELSE check_dict_entry(hp, items, i, visited, log, depth,
         IF items[i][1] \in {"/A", "/AA", "/OpenAction"}
           THEN is_javascript_action(hp, items[i][2], depth + 1)
           ELSE "F")

\* direct = the outcome of `if key in [...]: if _is_javascript_action(value)`
check_dict_entry(hp, items, i, visited, log, depth, direct) ==
  IF direct # "F" THEN CheckRes(direct, visited, log)
  ELSE check_dict_next(hp, items, i, depth,
         check_for_js_recursive(hp, items[i][2], visited, log, depth + 1))

\* rec = the outcome of `if _check_for_js_recursive(value, visited)`
check_dict_next(hp, items, i, depth, rec) ==
  IF rec.r # "F" THEN rec
  ELSE check_dict_items(hp, items, i + 1, rec.visited, rec.log, depth)

\* for item in obj: ...
check_array_items(hp, items, i, visited, log, depth) ==
  IF i > Len(items) THEN CheckRes("F", visited, log)
  ELSE check_array_next(hp, items, i, depth,
         check_for_js_recursive(hp, items[i], visited, log, depth + 1))

check_array_next(hp, items, i, depth, rec) ==
  IF rec.r # "F" THEN rec
  ELSE check_array_items(hp, items, i + 1, rec.visited, rec.log, depth)

\* ------------------------------------------------------ _remove_js_recursive
\* Result of a call: the heap after it, the visited set, the descent log (the
\* heap nodes the call descended into, in order), ch = the call's return
\* value (made_changes), err = the exception that was raised and is
\* propagating ("KeyError", "IndexError", "RecursionError"), or "none".
Res(hp, visited, log, ch, err) ==
  [hp |-> hp, visited |-> visited, log |-> log, ch |-> ch, err |-> err]

\* The state of a scan that marks entries: the result so far and the marks.
Scan(r, marked) == [r |-> r, marked |-> marked]

\* del seq[i] (1-based here)
DelIndex(seq, i) == [j \in 1..(Len(seq) - 1) |-> IF j < i THEN seq[j] ELSE seq[j + 1]]

\* Ascending order of the marked indices.
RECURSIVE SortedForward(_)
SortedForward(idxs) ==
  IF Len(idxs) = 0 THEN << >>
  ELSE LET m == CHOOSE x \in {idxs[j] : j \in 1..Len(idxs)} :
                  \A y \in {idxs[j] : j \in 1..Len(idxs)} : x <= y
       IN << m >> \o SortedForward(SelectSeq(idxs, LAMBDA x : x # m))

\* sorted(indices_to_delete, reverse=True)
RECURSIVE SortedReverse(_)
SortedReverse(idxs) ==
  IF Len(idxs) = 0 THEN << >>
  ELSE LET m == CHOOSE x \in {idxs[j] : j \in 1..Len(idxs)} :
                  \A y \in {idxs[j] : j \in 1..Len(idxs)} : x >= y
       IN << m >> \o SortedReverse(SelectSeq(idxs, LAMBDA x : x # m))

\* for i in sorted(...): del obj[i]     (IndexError when i is out of range)
RECURSIVE DeleteIndices(_, _, _)
DeleteIndices(seq, order, n) ==
  IF n > Len(order) THEN [a |-> seq, err |-> "none"]
  ELSE IF order[n] > Len(seq) THEN [a |-> seq, err |-> "IndexError"]
  ELSE DeleteIndices(DelIndex(seq, order[n]), order, n + 1)

\* for sub_key_to_delete in keys_to_delete_in_aa: del value[sub_key_to_delete]
RECURSIVE DeleteKeys(_, _, _, _)
DeleteKeys(hp, h, keys, n) ==
  IF n > Len(keys) THEN [hp |-> hp, err |-> "none"]
  ELSE IF keys[n] \notin DOMAIN hp[h].d THEN [hp |-> hp, err |-> "KeyError"]
  ELSE DeleteKeys(DelKey(hp, h, keys[n]), h, keys, n + 1)

\* The cycle guard: `if obj_id in visited: return False`.
NoSkipVisited(obj_id, visited) == FALSE
RemoveSkipVisited(obj_id, visited) == obj_id \in visited

\* `if modified_aa and not value: del obj[key]`
DropModifiedAA(modified_aa, aa) == modified_aa
DropEmptyAA(modified_aa, aa) == modified_aa /\ DOMAIN aa.d = {}

\* `/Names`: `if js_tree is not None: del value['/JavaScript']`
KeepJsTree(names) == FALSE
HasJsTree(names) == "/JavaScript" \in DOMAIN names.d

RECURSIVE remove_js_recursive(_, _, _, _, _)
RECURSIVE remove_dict_items(_, _, _, _, _, _, _, _)
RECURSIVE remove_dict_next(_, _, _, _, _, _)
RECURSIVE remove_dict_entry(_, _, _, _, _, _, _)
RECURSIVE remove_action_entry(_, _, _, _, _, _, _, _)
RECURSIVE remove_aa(_, _, _, _, _, _)
RECURSIVE remove_aa_delete(_, _, _, _)
RECURSIVE remove_aa_drop(_, _, _, _, _)
RECURSIVE remove_aa_items(_, _, _, _, _, _, _, _)
RECURSIVE remove_aa_item(_, _, _, _, _, _, _, _, _)
RECURSIVE remove_aa_next(_, _, _, _, _, _)
RECURSIVE remove_names(_, _, _, _, _)
RECURSIVE remove_array_items(_, _, _, _, _, _, _, _)
RECURSIVE remove_array_item(_, _, _, _, _, _, _, _, _)
RECURSIVE remove_array_next(_, _, _, _, _, _)

\* The deletions after the loop over an array, given the state of its scan.
remove_array_delete(h, scan, del) ==
  IF scan.r.err # "none" THEN scan.r
  ELSE Res([scan.r.hp EXCEPT ![h].a = del.a],
           scan.r.visited, scan.r.log, scan.r.ch, del.err)

remove_array_finish(h, scan) ==
  remove_array_delete(h, scan,
    IF scan.r.err # "none" THEN [a |-> << >>, err |-> "none"]
    ELSE DeleteIndices(scan.r.hp[h].a, SortedReverse(scan.marked), 1))

remove_js_recursive(hp, obj, visited, log, depth) ==
  IF ~(IsDictionary(hp, obj) \/ IsArray(hp, obj))
    THEN Res(hp, visited, log, FALSE, "none")
  ELSE IF depth > RecursionLimit
    THEN Res(hp, visited, log, FALSE, "RecursionError")
  ELSE IF RemoveSkipVisited(objgen(hp, obj.h), visited)
    THEN Res(hp, visited, log, FALSE, "none")
  ELSE IF IsDictionary(hp, obj)
    THEN remove_dict_items(hp, obj.h, Items(hp[obj.h]), 1,
                           visited \cup {objgen(hp, obj.h)},
                           Append(log, obj.h), FALSE, depth)
  ELSE remove_array_finish(obj.h,
         remove_array_items(hp, obj.h, Len(hp[obj.h].a),
                            visited \cup {objgen(hp, obj.h)},
                            Append(log, obj.h), << >>, FALSE, depth))

\* for key, value in list(obj.items()): ...
remove_dict_items(hp, h, items, i, visited, log, ch, depth) ==
  IF i > Len(items) THEN Res(hp, visited, log, ch, "none")
  ELSE remove_dict_next(h, items, i, ch, depth,
         remove_dict_entry(hp, h, items[i][1], items[i][2], visited, log, depth))

\* step = the outcome of the loop body for entry i
remove_dict_next(h, items, i, ch, depth, step) ==
  IF step.err # "none" THEN step
  ELSE remove_dict_items(step.hp, h, items, i + 1,
                         step.visited, step.log, ch \/ step.ch, depth)

\* The body of the loop over a Dictionary's entries.
remove_dict_entry(hp, h, key, value, visited, log, depth) ==
  IF key \in {"/A", "/OpenAction"}
    THEN remove_action_entry(hp, h, key, value, visited, log, depth,
                             is_javascript_action(hp, value, depth + 1))
  ELSE IF key = "/AA" /\ IsDictionary(hp, value)
    THEN remove_aa(hp, h, value, visited, log, depth)
  ELSE IF key = "/Names" /\ IsDictionary(hp, value)
    THEN remove_names(hp, value, visited, log, depth)
  ELSE remove_js_recursive(hp, value, visited, log, depth + 1)

\* `/A`, `/OpenAction`: `if _is_javascript_action(value): del obj[key]`, else
\* the recursion into the value.  (KeyError when the key is gone.)
remove_action_entry(hp, h, key, value, visited, log, depth, js) ==
  IF js = "E" THEN Res(hp, visited, log, FALSE, "RecursionError")
  ELSE IF js = "T"
    THEN IF key \notin DOMAIN hp[h].d
           THEN Res(hp, visited, log, FALSE, "KeyError")
           ELSE Res(DelKey(hp, h, key), visited, log, TRUE, "none")
  ELSE remove_js_recursive(hp, value, visited, log, depth + 1)

\* The `/AA` branch, followed by the recursion into the /AA value (the branch
\* leaves action_removed_here False).
remove_aa(hp, h, value, visited, log, depth) ==
  remove_aa_delete(h, value, depth,
    remove_aa_items(hp, Items(hp[value.h]), 1, visited, log, << >>, FALSE, depth))

\* Delete marked keys after iteration.
remove_aa_delete(h, value, depth, scan) ==
  IF scan.r.err # "none" THEN scan.r
  ELSE remove_aa_drop(h, value, depth, scan.r,
                      DeleteKeys(scan.r.hp, value.h, scan.marked, 1))

\* The `/AA` branch's contribution to made_changes, after the recursion.
remove_aa_result(modified_aa, rec) ==
  IF rec.err # "none" THEN rec
  ELSE Res(rec.hp, rec.visited, rec.log, rec.ch \/ modified_aa, "none")

\* `if modified_aa and not value: del obj[key]`, then the recursion into value.
remove_aa_drop(h, value, depth, r, del) ==
  IF del.err # "none" THEN Res(del.hp, r.visited, r.log, FALSE, del.err)
  ELSE IF DropEmptyAA(r.ch, del.hp[value.h])
    THEN IF "/AA" \notin DOMAIN del.hp[h].d
           THEN Res(del.hp, r.visited, r.log, FALSE, "KeyError")
           ELSE remove_aa_result(r.ch,
                  remove_js_recursive(DelKey(del.hp, h, "/AA"), value,
                                      r.visited, r.log, depth + 1))
  ELSE remove_aa_result(r.ch,
         remove_js_recursive(del.hp, value, r.visited, r.log, depth + 1))

\* for sub_key, sub_value in value.items(): ...   (r.ch is modified_aa)
remove_aa_items(hp, items, i, visited, log, marked, modified_aa, depth) ==
  IF i > Len(items)
    THEN Scan(Res(hp, visited, log, modified_aa, "none"), marked)
  ELSE remove_aa_item(hp, items, i, visited, log, marked, modified_aa, depth,
                      is_javascript_action(hp, items[i][2], depth + 1))

remove_aa_item(hp, items, i, visited, log, marked, modified_aa, depth, js) ==
  IF js = "E"
    THEN Scan(Res(hp, visited, log, modified_aa, "RecursionError"), marked)
  ELSE IF js = "T"
    THEN remove_aa_items(hp, items, i + 1, visited, log,
                         Append(marked, items[i][1]), TRUE, depth)
  ELSE remove_aa_next(items, i, marked, modified_aa, depth,
         remove_js_recursive(hp, items[i][2], visited, log, depth + 1))

remove_aa_next(items, i, marked, modified_aa, depth, rec) ==
  IF rec.err # "none" THEN Scan(rec, marked)
  ELSE remove_aa_items(rec.hp, items, i + 1, rec.visited, rec.log,
                       marked, modified_aa \/ rec.ch, depth)

\* The `/Names` branch.
remove_names_result(removed_js_tree, rec) ==
  IF rec.err # "none" THEN rec
  ELSE Res(rec.hp, rec.visited, rec.log, rec.ch \/ removed_js_tree, "none")

remove_names(hp, value, visited, log, depth) ==
  remove_names_result(HasJsTree(hp[value.h]),
    remove_js_recursive(
      IF HasJsTree(hp[value.h]) THEN DelKey(hp, value.h, "/JavaScript") ELSE hp,
      value, visited, log, depth + 1))

\* for i in range(len(obj) - 1, -1, -1): ...   (indices 1-based here)
remove_array_items(hp, h, i, visited, log, marked, ch, depth) ==
  IF i < 1 THEN Scan(Res(hp, visited, log, ch, "none"), marked)
  ELSE IF i > Len(hp[h].a)
    THEN Scan(Res(hp, visited, log, ch, "IndexError"), marked)
  ELSE remove_array_item(hp, h, i, visited, log, marked, ch, depth,
                         is_javascript_action(hp, hp[h].a[i], depth + 1))

remove_array_item(hp, h, i, visited, log, marked, ch, depth, js) ==
  IF js = "E" THEN Scan(Res(hp, visited, log, ch, "RecursionError"), marked)
  ELSE IF js = "T"
    THEN remove_array_items(hp, h, i - 1, visited, log, Append(marked, i), TRUE, depth)
  ELSE remove_array_next(h, i, marked, ch, depth,
         remove_js_recursive(hp, hp[h].a[i], visited, log, depth + 1))

remove_array_next(h, i, marked, ch, depth, rec) ==
  IF rec.err # "none" THEN Scan(rec, marked)
  ELSE remove_array_items(rec.hp, h, i - 1, rec.visited, rec.log,
                          marked, ch \/ rec.ch, depth)

\* ------------------------------------------------------ contains_javascript
\* pdf.Root
Root == 1

\* pdf.pages: the page dictionaries under Root./Pages./Kids (a flat page tree).
pdf_pages(hp) ==
  LET pn == DictGet(hp[Root], "/Pages") IN
  IF ~IsDictionary(hp, pn) THEN << >>
  ELSE LET kids == DictGet(hp[pn.h], "/Kids") IN
       IF ~IsArray(hp, kids) THEN << >>
       ELSE SelectSeq(hp[kids.h].a, LAMBDA v : IsDictionary(hp, v))

PageActionKeys  == << "/O", "/C" >>
AnnotActionKeys == << "/E", "/X", "/D", "/U", "/Fo", "/Bl", "/PO", "/PC", "/PV", "/PI" >>

\* `if <check>: return True`, else go on with the next check.
OrElse(r, next) == IF r # "F" THEN r ELSE next

\* for action_key in keys: if _is_javascript_action(d.get(action_key)): return True
RECURSIVE check_action_keys(_, _, _, _)
check_action_keys(hp, node, keys, i) ==
  IF i > Len(keys) THEN "F"
  ELSE OrElse(is_javascript_action(hp, DictGet(node, keys[i]), 1),
              check_action_keys(hp, node, keys, i + 1))

\* 1. Document level OpenAction
check_open_action(hp) ==
  IF Truthy(hp, DictGet(hp[Root], "/OpenAction"))
    THEN is_javascript_action(hp, DictGet(hp[Root], "/OpenAction"), 1)
    ELSE "F"

\* 2. Document level JavaScript name tree.  On a /Names value that is not a
\* Dictionary the call `pdf.Root.Names.get(...)` raises ValueError.
check_names_tree(hp) ==
  LET names == DictGet(hp[Root], "/Names")
  IN IF ~Truthy(hp, names) THEN "F"
     ELSE IF ~IsDictionary(hp, names) THEN "ValueError"
     ELSE IF Truthy(hp, DictGet(hp[names.h], "/JavaScript")) THEN "T" ELSE "F"

\* The recognised keys of an annotation's /AA.
check_annot_aa(hp, aa_actions) ==
  IF IsDictionary(hp, aa_actions)
    THEN check_action_keys(hp, hp[aa_actions.h], AnnotActionKeys, 1)
    ELSE "F"

\* One annotation: its /A, then its /AA.
check_annot(hp, annot) ==
  IF ~IsDictionary(hp, annot) THEN "F"
  ELSE OrElse(is_javascript_action(hp, DictGet(hp[annot.h], "/A"), 1),
              check_annot_aa(hp, DictGet(hp[annot.h], "/AA")))

RECURSIVE check_annots(_, _, _)
check_annots(hp, annotations, j) ==
  IF j > Len(annotations) THEN "F"
  ELSE OrElse(check_annot(hp, annotations[j]),
              check_annots(hp, annotations, j + 1))

\* A page's /AA under /O and /C.
check_page_aa(hp, page_actions) ==
  IF Truthy(hp, page_actions) /\ IsDictionary(hp, page_actions)
    THEN check_action_keys(hp, hp[page_actions.h], PageActionKeys, 1)
    ELSE "F"

\* A page's annotations.
check_page_annots(hp, annotations) ==
  IF IsArray(hp, annotations) THEN check_annots(hp, hp[annotations.h].a, 1)
  ELSE "F"

\* 3. One page: its /AA, then its annotations.
check_page(hp, page) ==
  OrElse(check_page_aa(hp, DictGet(hp[page.h], "/AA")),
         check_page_annots(hp, DictGet(hp[page.h], "/Annots")))

RECURSIVE check_pages(_, _, _)
check_pages(hp, pages, i) ==
  IF i > Len(pages) THEN "F"
  ELSE OrElse(check_page(hp, pages[i]), check_pages(hp, pages, i + 1))

\* The body of the `with pikepdf.open(...)` block: "T", "F", or the exception
\* raised while traversing: "E" when the recursion runs away (RecursionError),
\* "ValueError" from the name tree check.
detect_scan(hp) ==
  OrElse(check_for_js_recursive(hp, Ref(Root), {}, << >>, 0).r,
    OrElse(check_open_action(hp),
      OrElse(check_names_tree(hp),
             check_pages(hp, pdf_pages(hp), 1))))

\* What the try block yields: a result, or the exception raised in it.
ScanOutcome(r) == IF r = "E" THEN "RecursionError" ELSE r

detect_try(file, hp) ==
  IF file = "password" THEN "PasswordError"
  ELSE IF file = "corrupt" THEN "PdfError"
  ELSE ScanOutcome(detect_scan(hp))

\* `except pikepdf.PasswordError: return False` / `except Exception: return False`
DetectHandlerPasswordOnly(exc) == IF exc = "PasswordError" THEN "F" ELSE "raise"
DetectHandler(exc) == "F"

\* The function's result given what its try block yielded.
DetectReturn(o) == IF o \in {"T", "F"} THEN o ELSE DetectHandler(o)

\* contains_javascript(pdf_path): "T" / "F", or "raise" when an exception
\* leaves the function.
contains_javascript(file, hp) ==
  IF file = "missing" THEN "F" ELSE DetectReturn(detect_try(file, hp))

\* --------------------------------------------------------- input documents
\* Bounds of the generated documents.
MaxArrayLen == 3
MaxAnnots == 2

\* Heap layout of the generated documents (node numbers):
\*   1 Root   2 /Pages   3 /Kids   4 page   5 /Annots   6, 7 annotations
\*   8 page /AA   9 annotation /AA   10 JavaScript action (direct)
\*   11 JavaScript action (indirect)   12 GoTo action   13 GoTo action with
\*   /Next JavaScript   14 /Names   15 /Dests   16 JavaScript name tree
\*   17 array   18 dictionary with /A JavaScript   19 Root /AA
\*   20 name-tree array   21 empty dictionary   22 GoTo action with /Next
\*   an indirect JavaScript action
\* A direct leaf standing in several slots denotes equal copies of it.
Opt(key, v) == IF v = None THEN << >> ELSE key :> v

AAContent(tag) ==
  CASE tag = "O"    -> "/O" :> Ref(10)
    [] tag = "OC"   -> ("/O" :> Ref(10)) @@ ("/C" :> Ref(10))
    [] tag = "Omix" -> ("/O" :> Ref(10)) @@ ("/C" :> Ref(12))
    [] tag = "E"    -> "/E" :> Ref(10)
    [] tag = "EBl"  -> ("/E" :> Ref(10)) @@ ("/Bl" :> Ref(10))
    [] tag = "Emix" -> ("/E" :> Ref(10)) @@ ("/X" :> Ref(12))
    [] tag = "K"    -> "/K" :> Ref(10)
    [] tag = "Enest" -> ("/E" :> Ref(10)) @@ ("/X" :> Ref(7))
    [] OTHER        -> << >>

Build(p) ==
  [h \in 1..22 |->
    CASE h = 1  -> Dict(TRUE, Opt("/OpenAction", p.oa) @@ Opt("/K", p.k)
                              @@ Opt("/AA", p.rootAA) @@ Opt("/Names", p.names)
                              @@ ("/Pages" :> Ref(2)))
      [] h = 2  -> Dict(TRUE, "/Kids" :> Ref(3))
      [] h = 3  -> Arr(p.kidsInd, IF p.nPages = 1 THEN << Ref(4) >> ELSE << >>)
      [] h = 4  -> Dict(TRUE, Opt("/AA", p.pageAA)
                              @@ Opt("/Annots", IF p.nAnnots > 0 THEN Ref(5) ELSE None))
      [] h = 5  -> Arr(p.annotsInd,
                       [i \in 1..p.nAnnots |-> IF i = 1 THEN Ref(6) ELSE Ref(7)])
      [] h = 6  -> Dict(p.a1Ind, Opt("/A", p.a1A) @@ Opt("/AA", p.a1AA))
      [] h = 7  -> Dict(TRUE, Opt("/AA", p.a2AA))
      [] h = 8  -> Dict(FALSE, AAContent(p.aa8))
      [] h = 9  -> Dict(p.aa9Ind, AAContent(p.aa9))
      [] h = 10 -> Dict(FALSE, "/S" :> JavaScript)
      [] h = 11 -> Dict(TRUE, "/S" :> JavaScript)
      [] h = 12 -> Dict(FALSE, "/S" :> Name("GoTo"))
      [] h = 13 -> Dict(FALSE, ("/S" :> Name("GoTo")) @@ ("/Next" :> Ref(10)))
      [] h = 14 -> Dict(p.namesInd, Opt("/JavaScript", p.jsTree)
                                    @@ Opt("/Dests", IF p.dests THEN Ref(15) ELSE None))
      [] h = 15 -> Dict(FALSE, "/K" :> Name("d"))
      [] h = 16 -> Dict(FALSE, "/Names" :> Ref(20))
      [] h = 17 -> Arr(p.arrInd, p.arr)
      [] h = 18 -> Dict(FALSE, "/A" :> Ref(10))
      [] h = 19 -> Dict(FALSE, "/O" :> Ref(10))
      [] h = 20 -> Arr(FALSE, << Name("s"), Ref(10) >>)
      [] h = 22 -> Dict(FALSE, ("/S" :> Name("GoTo")) @@ ("/Next" :> Ref(11)))
      [] OTHER  -> Dict(FALSE, << >>)]

\* The nodes a node refers to, and the nodes reachable from a set of nodes.
Children(hp, h) ==
  IF hp[h].kind = "dict"
    THEN {hp[h].d[key].h : key \in {x \in DOMAIN hp[h].d : hp[h].d[x].k = "ref"}}
    ELSE {hp[h].a[i].h : i \in {j \in 1..Len(hp[h].a) : hp[h].a[j].k = "ref"}}

RECURSIVE ReachFrom(_, _)
ReachFrom(hp, seen) ==
  LET more == seen \cup UNION {Children(hp, h) : h \in seen}
  IN IF more = seen THEN seen ELSE ReachFrom(hp, more)

Reach(hp) == ReachFrom(hp, {Root})

\* The document as parsed: the nodes reachable from the root.
Document(p) == LET hp == Build(p) IN [h \in Reach(hp) |-> hp[h]]

Default ==
  [oa |-> None, k |-> None, rootAA |-> None, names |-> None, namesInd |-> FALSE,
   jsTree |-> None, dests |-> FALSE, kidsInd |-> FALSE, nPages |-> 0,
   pageAA |-> None, aa8 |-> "O", nAnnots |-> 0, annotsInd |-> FALSE,
   a1Ind |-> TRUE, a1A |-> None, a1AA |-> None, a2AA |-> None, aa9 |-> "E",
   aa9Ind |-> FALSE, arr |-> << >>, arrInd |-> FALSE]

\* Documents with document-level entries only.
RootDocs ==
  { [Default EXCEPT !.oa = oa, !.k = k, !.rootAA = raa, !.names = nm[1],
                    !.namesInd = nm[2], !.jsTree = nm[3], !.dests = nm[4]] :
      oa \in {None, Ref(10), Ref(12), Ref(13), Ref(22)},
      k \in {None, Ref(12), Ref(18), Ref(1)},
      raa \in {None, Ref(19)},
      nm \in {<< None, FALSE, None, FALSE >>, << Ref(14), TRUE, Ref(16), TRUE >>}
             \cup ({Ref(14)} \X {FALSE} \X {None, Ref(16), Ref(21)} \X BOOLEAN) }

ArrayElems == {Ref(10), Ref(11), Ref(12), Ref(20), Name("x")}

\* Documents with an array of mixed elements under Root./K.
ArrayDocs ==
  { [Default EXCEPT !.k = Ref(17), !.arr = a, !.arrInd = ai, !.oa = oa] :
      a \in UNION {[1..n -> ArrayElems] : n \in 0..MaxArrayLen},
      ai \in BOOLEAN, oa \in {None, Ref(12)} }

\* Documents with one page that has an /AA dictionary and no annotations.
PageDocs ==
  { [Default EXCEPT !.nPages = 1, !.kidsInd = ki, !.k = k, !.pageAA = Ref(8),
                    !.aa8 = tag] :
      ki \in BOOLEAN, k \in {None, Ref(12)}, tag \in {"O", "OC", "Omix"} }

\* Documents with one page that has n annotations.
AnnotDocsWith(n) ==
  { [Default EXCEPT !.nPages = 1, !.kidsInd = ki, !.k = k, !.nAnnots = n,
                    !.annotsInd = a[1], !.a1Ind = a[2], !.a1A = a[3],
                    !.a1AA = b[1], !.a2AA = b[2], !.aa9 = b[3], !.aa9Ind = b[4]] :
      ki \in BOOLEAN, k \in {None, Ref(12)},
      a \in BOOLEAN \X BOOLEAN \X {None, Ref(10), Ref(13), Ref(4)},
      b \in { y \in {None, Ref(9)} \X {None, Ref(9)} \X {"EBl", "Emix", "K"} \X BOOLEAN :
                /\ (n < 2 => y[2] = None)
                /\ (y[1] = None /\ y[2] = None => y[3] = "K" /\ ~y[4])
                /\ (y[1] = Ref(9) /\ y[2] = Ref(9) => y[4]) } }

AnnotDocs == UNION {AnnotDocsWith(n) : n \in 1..MaxAnnots}

\* Documents with an array that contains itself, a dictionary that is its own
\* /AA, an /AA dictionary one of whose sub-values is a dictionary with that
\* same /AA, and a /Names entry that is an Array.
CyclicDocs ==
  { [Default EXCEPT !.oa = Ref(17), !.arr = a, !.arrInd = TRUE] :
      a \in {<< Ref(17) >>, << Ref(17), Ref(10) >>, << Ref(10), Ref(17) >>} }
  \cup { [Default EXCEPT !.k = Ref(17), !.arr = << Ref(17), Ref(12) >>, !.arrInd = TRUE] }
  \cup { [Default EXCEPT !.rootAA = Ref(1), !.oa = oa] : oa \in {None, Ref(10)} }
  \cup { [Default EXCEPT !.names = Ref(20)] }
  \cup { [Default EXCEPT !.nPages = 1, !.kidsInd = TRUE, !.nAnnots = n,
                         !.annotsInd = TRUE, !.a1AA = Ref(9), !.a2AA = Ref(9),
                         !.aa9 = "Enest", !.aa9Ind = TRUE] : n \in 1..2 }

Params == RootDocs \cup ArrayDocs \cup PageDocs \cup AnnotDocs \cup CyclicDocs

\* ------------------------------------------------------------------- state
VARIABLES
  file,                    \* the input path: "ok", "missing", "password",
                           \* "corrupt", or "same_path" (input = output)
  cmd,                     \* the command line: "check" or "remove"
  heap,                    \* the object graph of the open Pdf
  heap0,                   \* the graph as it was opened by this run of remove
  doc,                     \* the graph of the input file (never changes)
  error,                   \* exception caught by remove_javascript, or "none"
  run,                     \* 1, or 2 when remove runs again on its own output
  pc,                      \* position in main / remove_javascript
  pass_num,                \* loop variable of the pass loop (0-based)
  visited_this_pass,
  made_changes_this_pass,
  total_changes_made,
  reached_limit,           \* the loop's else branch ran (max_passes reached)
  log,                     \* nodes descended into by the current pass
  saved,                   \* pdf.save(output_path) was executed
  success,                 \* return value of remove_javascript: "none", "T", "F"
  has_js                   \* result of contains_javascript: "none", "T", "F", "raise"

vars == << file, cmd, heap, heap0, doc, error, run, pc, pass_num, visited_this_pass,
           made_changes_this_pass, total_changes_made, reached_limit, log,
           saved, success, has_js >>

Init ==
  /\ \/ /\ file = "ok"
        /\ \E p \in Params : heap = Document(p)
     \/ /\ file \in {"missing", "password", "corrupt", "same_path"}
        /\ heap = Document(Default)
  /\ cmd \in {"check", "remove"}
  /\ (file = "same_path" => cmd = "remove")
  /\ heap0 = heap
  /\ doc = heap
  /\ error = "none"
  /\ run = 1
  /\ pc = "start"
  /\ pass_num = 0
  /\ visited_this_pass = {}
  /\ made_changes_this_pass = FALSE
  /\ total_changes_made = FALSE
  /\ reached_limit = FALSE
  /\ log = << >>
  /\ saved = FALSE
  /\ success = "none"
  /\ has_js = "none"

\* ----------------------------------------------------------- the `check` command
\* main: has_js = contains_javascript(args.input_pdf)
CheckCmd ==
  /\ pc = "start" /\ cmd = "check"
  /\ has_js' = contains_javascript(file, heap)
  /\ pc' = "checked"
  /\ UNCHANGED << file, cmd, heap, heap0, doc, error, run, pass_num,
                  visited_this_pass, made_changes_this_pass,
                  total_changes_made, reached_limit, log, saved, success >>

\* ---------------------------------------------------------- remove_javascript
\* The checks before the pass loop and pikepdf.open: a missing input, equal
\* paths, PasswordError and any other exception make the function return False.
StartRemove ==
  /\ pc = "start" /\ cmd = "remove"
  /\ IF file # "ok"
       THEN /\ success' = "F" /\ pc' = "failed"
            /\ error' = (CASE file = "password" -> "PasswordError"
                            [] file = "corrupt"  -> "PdfError"
                            [] OTHER             -> "none")
            /\ UNCHANGED << total_changes_made, pass_num, reached_limit, heap0 >>
       ELSE /\ total_changes_made' = FALSE /\ pass_num' = 0
            /\ reached_limit' = FALSE /\ heap0' = heap
            /\ pc' = "pass_begin" /\ UNCHANGED << success, error >>
  /\ UNCHANGED << file, cmd, heap, doc, run, visited_this_pass,
                  made_changes_this_pass, log, saved, has_js >>

\* visited_this_pass = set()
KeepVisited(previous) == previous
NewVisited(previous) == {}

\* Top of the loop body: a new visited set, made_changes_this_pass = False.
BeginPass ==
  /\ pc = "pass_begin"
  /\ visited_this_pass' = NewVisited(visited_this_pass)
  /\ made_changes_this_pass' = FALSE
  /\ log' = << >>
  /\ pc' = "root_scan"
  /\ UNCHANGED << file, cmd, heap, heap0, doc, error, run, pass_num,
                  total_changes_made, reached_limit, saved, success, has_js >>

\* The effect of a scan on the state.  The scan's mutations of the open Pdf,
\* of visited_this_pass and its descents happen as it runs, so they are there
\* as well when it raises.  An exception ends remove_javascript with False
\* (nothing is saved) and leaves made_changes_this_pass at made_if_raised;
\* otherwise the scan's return value is ORed into made_changes_this_pass.
ApplyScan(r, next_pc, made_if_raised) ==
  /\ heap' = r.hp /\ visited_this_pass' = r.visited /\ log' = r.log
  /\ IF r.err # "none"
       THEN /\ success' = "F" /\ pc' = "failed" /\ error' = r.err
            /\ made_changes_this_pass' = made_if_raised
       ELSE /\ made_changes_this_pass' = r.ch
            /\ pc' = next_pc /\ UNCHANGED << success, error >>

\* 1. if _remove_js_recursive(pdf.Root, visited_this_pass): ...
RootScan ==
  /\ pc = "root_scan"
  /\ ApplyScan(remove_js_recursive(heap, Ref(Root), visited_this_pass, log, 0),
               "annot_scan", made_changes_this_pass)
  /\ UNCHANGED << file, cmd, heap0, doc, run, pass_num, total_changes_made,
                  reached_limit, saved, has_js >>

\* for j, annot_ref in enumerate(annotations): _remove_js_recursive(annot_ref, ...)
RECURSIVE scan_annotations(_, _, _, _, _, _)
RECURSIVE scan_annotations_next(_, _, _, _)
scan_annotations(hp, annotations, j, visited, lg, ch) ==
  IF j > Len(annotations) THEN Res(hp, visited, lg, ch, "none")
  ELSE scan_annotations_next(annotations, j, ch,
         remove_js_recursive(hp, annotations[j], visited, lg, 0))

scan_annotations_next(annotations, j, ch, rec) ==
  IF rec.err # "none" THEN [rec EXCEPT !.ch = ch]
  ELSE scan_annotations(rec.hp, annotations, j + 1, rec.visited, rec.log,
                        ch \/ rec.ch)

\* for i, page in enumerate(pdf.pages): ...
RECURSIVE scan_pages(_, _, _, _, _, _)
RECURSIVE scan_pages_next(_, _, _)
scan_pages(hp, pages, i, visited, lg, ch) ==
  IF i > Len(pages) THEN Res(hp, visited, lg, ch, "none")
  ELSE scan_pages_next(pages, i,
         IF IsArray(hp, DictGet(hp[pages[i].h], "/Annots"))
           THEN scan_annotations(hp, hp[DictGet(hp[pages[i].h], "/Annots").h].a,
                                 1, visited, lg, ch)
           ELSE Res(hp, visited, lg, ch, "none"))

scan_pages_next(pages, i, rec) ==
  IF rec.err # "none" THEN rec
  ELSE scan_pages(rec.hp, pages, i + 1, rec.visited, rec.log, rec.ch)

\* The annotation scan sets made_changes_this_pass after each annotation, so
\* when it raises the flag holds what the scan had accumulated (r.ch).
ApplyAnnotScan(r) == ApplyScan(r, "pass_end", r.ch)

\* 2. The explicit scan of every page's annotations.
AnnotScan ==
  /\ pc = "annot_scan"
  /\ ApplyAnnotScan(scan_pages(heap, pdf_pages(heap), 1, visited_this_pass, log,
                               made_changes_this_pass))
  /\ UNCHANGED << file, cmd, heap0, doc, run, pass_num, total_changes_made,
                  reached_limit, saved, has_js >>

\* `if made_changes_this_pass: ... else: break`
StopAfterFirstPass(made_changes) == FALSE
NextPassNeeded(made_changes) == made_changes

\* End of the loop body and the loop's else branch: a pass without changes ends
\* the loop; after max_passes passes with changes the else branch sets
\* total_changes_made.
EndPass ==
  /\ pc = "pass_end"
  /\ IF NextPassNeeded(made_changes_this_pass)
       THEN /\ total_changes_made' = TRUE
            /\ IF pass_num + 1 < max_passes
                 THEN /\ pass_num' = pass_num + 1 /\ pc' = "pass_begin"
                      /\ UNCHANGED reached_limit
                 ELSE /\ reached_limit' = TRUE /\ pc' = "save"
                      /\ UNCHANGED pass_num
       ELSE /\ pc' = "save"
            /\ UNCHANGED << total_changes_made, pass_num, reached_limit >>
  /\ UNCHANGED << file, cmd, heap, heap0, doc, error, run, visited_this_pass,
                  made_changes_this_pass, log, saved, success, has_js >>

\* `if total_changes_made: pdf.save(...) else: pdf.save(...)`
SaveOnlyIfChanged(changed) == changed
SaveOutput(changed) == TRUE

\* Saving the output and returning True.
Save ==
  /\ pc = "save"
  /\ saved' = SaveOutput(total_changes_made)
  /\ success' = "T"
  /\ pc' = "done"
  /\ UNCHANGED << file, cmd, heap, heap0, doc, error, run, pass_num,
                  visited_this_pass, made_changes_this_pass,
                  total_changes_made, reached_limit, log, has_js >>

\* main: after a successful remove, contains_javascript(args.output_pdf).
Verify ==
  /\ pc = "done"
  /\ has_js' = contains_javascript("ok", heap)
  /\ pc' = "verified"
  /\ UNCHANGED << file, cmd, heap, heap0, doc, error, run, pass_num,
                  visited_this_pass, made_changes_this_pass,
                  total_changes_made, reached_limit, log, saved, success >>

\* The remove command run once more, on the output of the first run.
Rerun ==
  /\ pc = "verified" /\ run = 1 /\ saved
  /\ run' = 2
  /\ pc' = "start"
  /\ saved' = FALSE /\ success' = "none" /\ has_js' = "none"
  /\ UNCHANGED << file, cmd, heap, heap0, doc, error, pass_num,
                  visited_this_pass, made_changes_this_pass,
                  total_changes_made, reached_limit, log >>

Next ==
  \/ CheckCmd
  \/ StartRemove
  \/ BeginPass
  \/ RootScan
  \/ AnnotScan
  \/ EndPass
  \/ Save
  \/ Verify
  \/ Rerun

Spec == Init /\ [][Next]_vars

\* ------------------------------------------------------------------ claims
\* A Dictionary whose /S entry is the Name JavaScript.
IsScriptDict(hp, h) == hp[h].kind = "dict" /\ DictGet(hp[h], "/S") = JavaScript

\* Some script action is reachable from the root.
ScriptReachable(hp) == \E h \in Reach(hp) : IsScriptDict(hp, h)

\* C1: after the pass loop stopped because a pass made no mutation (the pass
\* limit was not reached), detection on the resulting graph returns false.
C1_PostCondition ==
  (pc = "verified" /\ ~reached_limit) => has_js = "F"

\* The traversal raised an exception.
ScanRaised(r) == r \notin {"T", "F"}

\* C2: for a document that opens and is traversed without error, detection
\* returns true whenever a Dictionary with /S = JavaScript is reachable from
\* the root through dictionary entries and array elements.
C2_DetectsReachable ==
  (pc = "checked" /\ file = "ok" /\ ~ScanRaised(detect_scan(heap)) /\ ScriptReachable(heap))
    => has_js = "T"

NoRevisit(hp, lg) ==
  \A i, j \in 1..Len(lg) : i # j => objgen(hp, lg[i]) # objgen(hp, lg[j])

BoundedDescent(hp, lg) == NoRevisit(hp, lg) /\ Len(lg) <= Cardinality(DOMAIN hp)

\* The arrays reachable from a set of arrays through array elements only.
RECURSIVE ArraysFrom(_, _)
ArraysFrom(hp, seen) ==
  LET more == seen \cup {h \in UNION {Children(hp, a) : a \in seen} :
                           hp[h].kind = "array"}
  IN IF more = seen THEN seen ELSE ArraysFrom(hp, more)

\* An array contains itself, directly or through other arrays (a cycle of
\* array elements only; _is_javascript_action has no guard against it).
ArrayInItself(hp) ==
  \E h \in DOMAIN hp :
    /\ hp[h].kind = "array"
    /\ h \in ArraysFrom(hp, {c \in Children(hp, h) : hp[c].kind = "array"})

\* A Dictionary's /A entry refers back to a Dictionary it is reachable from.
ActionBackReference(hp) ==
  \E h \in DOMAIN hp :
    /\ hp[h].kind = "dict"
    /\ IsDictionary(hp, DictGet(hp[h], "/A"))
    /\ hp[DictGet(hp[h], "/A").h].ind
    /\ h \in ReachFrom(hp, {DictGet(hp[h], "/A").h})

\* C4: cycle safety: on a graph where a Dictionary's /A entry is an indirect
\* reference back to an ancestor, detection and removal terminate: no scan
\* descends twice into the same objgen, so a scan descends into at most as
\* many nodes as the graph has, and unless an array contains itself through
\* array elements no recursion runs away (RecursionError), whatever cycles
\* run through dictionaries.
C4_CycleSafety ==
  /\ BoundedDescent(heap, log)
  /\ pc \in {"checked", "verified"} =>
       BoundedDescent(heap, check_for_js_recursive(heap, Ref(Root), {}, << >>, 0).log)
  /\ ~ArrayInItself(doc) =>
       /\ error # "RecursionError"
       /\ pc \in {"checked", "verified"} => detect_scan(heap) # "E"

\* Removal and the detection after it have finished on a graph in which an
\* annotation's /A refers back to its page and no array contains itself.
C4_Witness ==
  /\ pc = "verified"
  /\ ActionBackReference(doc)
  /\ ~ArrayInItself(doc)
  /\ Len(log) > 2

\* C5: when a scan removes elements from an array, the array afterwards holds
\* exactly the elements that are not script actions, each once and in their
\* previous relative order.
C5_ArrayOrder ==
  [][\A h \in DOMAIN heap :
       (heap[h].kind = "array" /\ heap'[h].a # heap[h].a) =>
         heap'[h].a = SelectSeq(heap[h].a,
                        LAMBDA v : is_javascript_action(heap, v, 0) # "T")]_vars

\* The root scan has removed script actions from an array of three elements
\* and left two elements.
C5_Witness ==
  /\ pc = "annot_scan"
  /\ 17 \in DOMAIN doc
  /\ Len(doc[17].a) = 3
  /\ Len(heap[17].a) = 2
  /\ is_javascript_action(doc, doc[17].a[2], 0) = "T"

\* The page and annotation dictionaries of a graph.
RECURSIVE AnnotsOf(_, _, _)
AnnotsOf(hp, pages, i) ==
  IF i > Len(pages) THEN {}
  ELSE LET annotations == DictGet(hp[pages[i].h], "/Annots")
       IN (IF IsArray(hp, annotations)
             THEN {hp[annotations.h].a[j].h :
                     j \in {x \in 1..Len(hp[annotations.h].a) :
                              IsDictionary(hp, hp[annotations.h].a[x])}}
             ELSE {})
          \cup AnnotsOf(hp, pages, i + 1)

PagesAndAnnots(hp) ==
  {pdf_pages(hp)[i].h : i \in 1..Len(pdf_pages(hp))} \cup AnnotsOf(hp, pdf_pages(hp), 1)

\* The /AA entry of node h is a non-empty Dictionary of script actions only.
OnlyScriptAA(hp, h) ==
  LET aa == DictGet(hp[h], "/AA") IN
  /\ IsDictionary(hp, aa)
  /\ DOMAIN hp[aa.h].d # {}
  /\ \A key \in DOMAIN hp[aa.h].d :
       is_javascript_action(hp, hp[aa.h].d[key], 0) = "T"

\* C6: for a page or annotation whose /AA holds script actions only, the pass
\* loop is stable after at most 2 passes and the owner then has no /AA key.
C6_NestedExposure ==
  pc = "done" =>
    \A h \in PagesAndAnnots(heap0) :
      OnlyScriptAA(heap0, h) =>
        /\ pass_num + 1 <= 2
        /\ "/AA" \notin DOMAIN heap[h].d

\* The graph under a value holds no script action.
NoScriptUnder(hp, v) ==
  v.k = "ref" => \A m \in ReachFrom(hp, {v.h}) : ~IsScriptDict(hp, m)

\* C7: for every Dictionary a scan descended into that has a /Names entry
\* whose value is a Dictionary: afterwards that /Names dictionary has no
\* /JavaScript entry, the pass reports a change if it had one, and every other
\* entry of it that holds no script action is still there, unchanged.
C7_NamesFrame ==
  [][(pc \in {"root_scan", "annot_scan"} /\ pc' # "failed") =>
       \A i \in (Len(log) + 1)..Len(log') :
         LET names == IF heap[log'[i]].kind = "dict"
                        THEN DictGet(heap[log'[i]], "/Names") ELSE None
         IN IsDictionary(heap, names) =>
              /\ "/JavaScript" \notin DOMAIN heap'[names.h].d
              /\ "/JavaScript" \in DOMAIN heap[names.h].d => made_changes_this_pass'
              /\ \A key \in (DOMAIN heap[names.h].d) \ {"/JavaScript"} :
                   NoScriptUnder(heap, heap[names.h].d[key]) =>
                     /\ key \in DOMAIN heap'[names.h].d
                     /\ heap'[names.h].d[key] = heap[names.h].d[key]
                     /\ heap[names.h].d[key].k = "ref" =>
                          \A m \in ReachFrom(heap, {heap[names.h].d[key].h}) :
                            heap'[m] = heap[m]]_vars

\* The root scan has removed /JavaScript from a /Names dictionary that also has
\* /Dests, and reported a change.
C7_Witness ==
  /\ pc = "annot_scan"
  /\ 14 \in DOMAIN doc
  /\ DOMAIN doc[14].d = {"/JavaScript", "/Dests"}
  /\ DOMAIN heap[14].d = {"/Dests"}
  /\ made_changes_this_pass

\* No node reachable from the root satisfies the Action predicate.
NoScriptAction(hp) == ~ScriptReachable(hp)

\* No /Names dictionary reachable from the root has a /JavaScript entry.
NoJavaScriptNameTree(hp) ==
  \A h \in Reach(hp) :
    (hp[h].kind = "dict" /\ IsDictionary(hp, DictGet(hp[h], "/Names")))
      => "/JavaScript" \notin DOMAIN hp[DictGet(hp[h], "/Names").h].d

\* C8 as stated: for a document in which no node satisfies the Action
\* predicate, the pass loop reports changed = false and the output is still
\* written.
C8_NoActionsUnchanged ==
  (pc = "done" /\ NoScriptAction(heap0)) => (~total_changes_made /\ saved)

\* C8 amended: for a document in which no node satisfies the Action predicate
\* and no /Names dictionary has a /JavaScript entry, the pass loop reports
\* changed = false, leaves the graph as it was, and the output is still
\* written.
C8_NoActionsNoNameTree ==
  (pc = "done" /\ NoScriptAction(heap0) /\ NoJavaScriptNameTree(heap0))
    => (~total_changes_made /\ heap = heap0 /\ saved)

\* A first run has ended on a document with a /Names dictionary and a GoTo
\* action but no script action and no JavaScript name tree.
C8_Witness ==
  /\ pc = "done" /\ run = 1
  /\ NoScriptAction(doc) /\ NoJavaScriptNameTree(doc)
  /\ {12, 14} \subseteq DOMAIN doc
  /\ saved /\ ~total_changes_made

\* C9: detection fails safe: for a missing input, a password-protected
\* document, or any error raised while opening or traversing the graph, it
\* returns false, and no exception ever leaves it.
C9_FailSafe ==
  /\ has_js # "raise"
  /\ (pc = "checked" /\ (file # "ok" \/ ScanRaised(detect_scan(heap)))) => has_js = "F"

\* Detection has returned false on a document whose traversal raises an error.
C9_Witness ==
  pc = "checked" /\ file = "ok" /\ detect_scan(heap) = "E" /\ has_js = "F"

LimitOutOfReach == pass_num <= 2 /\ ~reached_limit


\* C11: during a pass nothing is deleted from a Dictionary or an Array while a
\* scan of that same collection is still in progress.  The code collects keys
\* and indices during a scan and deletes them after it, or deletes a key of
\* the snapshot it iterates; `del` on a key or index that is no longer there
\* raises KeyError or IndexError, so such an exception ends a pass exactly
\* when an entry seen by a scan in progress was deleted from that collection
\* by a nested call before the scan's own deletion.
C11_NoDeletionDuringScan ==
  error \notin {"KeyError", "IndexError"}

\* The Action predicate: a Dictionary with /S = JavaScript, or an Array of
\* which some element, possibly through nested arrays, is such a Dictionary.
IsAction(hp, v) ==
  IF IsDictionary(hp, v) THEN IsScriptDict(hp, v.h)
  ELSE IF IsArray(hp, v)
    THEN \E a \in ArraysFrom(hp, {v.h}) : \E i \in 1..Len(hp[a].a) :
           IsDictionary(hp, hp[a].a[i]) /\ IsScriptDict(hp, hp[a].a[i].h)
  ELSE FALSE

\* The classifier returned (raised nothing) and its answer is the expected one.
ClassifiedAs(r, expected) == r # "E" /\ (r = "T" <=> expected)

\* C12: _is_javascript_action terminates with an answer on every node of the
\* graph, arrays that contain themselves included, and on every other value;
\* the answer is true exactly for a Dictionary with /S = JavaScript and for an
\* Array some element of which recursively satisfies it.
C12_ClassifierTotal ==
  \A v \in {Ref(h) : h \in DOMAIN heap} \cup {Name("x"), None} :
    ClassifiedAs(is_javascript_action(heap, v, 0), IsAction(heap, v))

\* Node h is the value of some Dictionary's entry under key.
IsValueUnder(hp, key, h) ==
  \E o \in DOMAIN hp : hp[o].kind = "dict" /\ DictGet(hp[o], key) = Ref(h)

\* A key of Dictionary h with value v (in graph old) that the code may remove;
\* new is the graph after the removals.
RemovableEntry(old, new, h, key, v) ==
  \/ key \in {"/A", "/OpenAction"} /\ IsAction(old, v)
  \/ IsValueUnder(old, "/AA", h) /\ IsAction(old, v)
  \/ /\ key = "/AA" /\ IsDictionary(old, v)
     /\ DOMAIN old[v.h].d # {} /\ DOMAIN new[v.h].d = {}
  \/ key = "/JavaScript" /\ IsValueUnder(old, "/Names", h)

\* Sequence new is sequence old without some of its elements, all of which
\* satisfy the Action predicate.
OnlyActionsDropped(hp, old, new) ==
  \E keep \in SUBSET (1..Len(old)) :
    /\ \A i \in (1..Len(old)) \ keep : IsAction(hp, old[i])
    /\ new = SelectSeq([i \in 1..Len(old) |-> IF i \in keep THEN old[i] ELSE None],
                       LAMBDA v : v # None)

\* C13: whatever the number of passes, remove_javascript only deletes: the
\* graph has the same nodes as when it was opened, every key gone from a
\* Dictionary is an /A or /OpenAction entry with an action value, a sub-entry
\* of an /AA dictionary with an action value, an /AA entry whose dictionary
\* was left empty, or the /JavaScript entry of a /Names dictionary, every
\* element gone from an Array satisfies the Action predicate, and every other
\* entry and element is still there with its value.
C13_OnlyDeletes ==
  /\ DOMAIN heap = DOMAIN heap0
  /\ \A h \in DOMAIN heap0 :
       /\ heap[h].kind = heap0[h].kind /\ heap[h].ind = heap0[h].ind
       /\ DOMAIN heap[h].d \subseteq DOMAIN heap0[h].d
       /\ \A key \in DOMAIN heap0[h].d :
            IF key \in DOMAIN heap[h].d
              THEN heap[h].d[key] = heap0[h].d[key]
              ELSE RemovableEntry(heap0, heap, h, key, heap0[h].d[key])
       /\ OnlyActionsDropped(heap0, heap0[h].a, heap[h].a)

\* A run has ended after removing an /AA key from one Dictionary and an
\* element from an Array or a key from another Dictionary.
C13_Witness ==
  /\ pc = "done" /\ run = 1
  /\ \E h \in DOMAIN heap0 : "/AA" \in (DOMAIN heap0[h].d) \ (DOMAIN heap[h].d)
  /\ \E h \in DOMAIN heap0 :
       \/ Len(heap[h].a) < Len(heap0[h].a)
       \/ ((DOMAIN heap0[h].d) \ (DOMAIN heap[h].d)) \ {"/AA"} # {}

=============================================================================
